---- MODULE Spec2Model ----
(***************************************************************************)
(* The MEGADOGS bot server (src/unnamed/part_000, with the older variant   *)
(* src/index.js): the notification de-duplication cache `sentMessages`,    *)
(* the three notification endpoints, the cache administration endpoints,   *)
(* the hourly cache sweep, and the webhook registration retry loop with    *)
(* the process-wide health flag.                                           *)
(*                                                                         *)
(* Node runs every handler on one thread; an async handler runs without    *)
(* interruption up to its `await axios.post(...)`, is suspended there, and *)
(* resumes in a later turn of the event loop.  Each action below is one    *)
(* such uninterrupted run.                                                 *)
(***************************************************************************)
EXTENDS Integers, Sequences, FiniteSets, Bags, TLC

VARIABLES
    now,            \* Date.now(), in milliseconds
    ticks,          \* number of clock advances taken (bounds the model)
    sentMessages,   \* the Map, as its entries in insertion order
    pending,        \* the bag of handlers suspended at `await axios.post(.../sendMessage)`
    lastOut,        \* the latest output: an HTTP response, or the sweep's log line
    welcomedAt,     \* history: per welcome key, the latest timestamp a send recorded
    sinceClear,     \* history: the cache was cleared and nothing was recorded since
    isHealthy,      \* the health flag
    regPc,          \* where the registration loop stands
    retries,        \* the `retries` argument of the current initWebhook call
    attempts,       \* history: number of setWebhook calls issued
    failures,       \* history: number of setWebhook calls that failed
    retryTimer,     \* the pending setTimeout of initWebhook: <<time left, argument>>, or <<>>
    probe,          \* the keep-alive request and its answer in flight
    probeIn,        \* time left until the keep-alive interval fires next
    hits,           \* requests counted by the rate limiter in this window
    windowIn,       \* time left until the rate limiter's window resets
    healthResp,     \* status of the latest answer to an outside GET /health
    hooks           \* the POST /webhook/{token} requests received, in order of arrival

cacheVars == <<sentMessages, pending, lastOut, welcomedAt, sinceClear>>
regVars == <<isHealthy, regPc, retries, attempts, failures, retryTimer,
             probe, probeIn, hits, windowIn, healthResp>>
vars == <<now, ticks, cacheVars, regVars, hooks>>

----------------------------------------------------------------------------
(* Program constants *)

HOUR_MS == 60 * 60 * 1000
WELCOME_WINDOW == 24 * 60 * 60 * 1000
SEVEN_DAYS == 7 * 24 * 60 * 60 * 1000
SWEEP_INTERVAL == 60 * 60 * 1000
STATS_SAMPLE == 10
RETRY_TIMEOUT == 5000
MAX_RETRIES == 5
PROBE_INTERVAL == 60000
WINDOW_MS == 15 * 60 * 1000
RATE_MAX == 5

\* Date.now() when the process starts: some instant after the epoch.
BootTime == HOUR_MS

(* Bounds of the model *)

MaxTicks == 3
MaxInFlight == 2
MaxRegTicks == 7

\* The clock advances the model takes: one hour, a day less an hour, seven days;
\* and how far from the start the clock goes (TLC's integers end at 2^31 - 1).
TickSteps == {HOUR_MS, 23 * HOUR_MS, 7 * 24 * HOUR_MS}
ClockSpan == 8 * 24 * HOUR_MS

----------------------------------------------------------------------------
(* JavaScript values of request-body fields.  A string is the sequence of  *)
(* its pieces; an object stands for newUser and carries its id.            *)

Undefined == [t |-> "undefined", s |-> <<>>]
Str(s) == [t |-> "string", s |-> s]
Obj(id) == [t |-> "object", s |-> id]

\* `!x` is false for objects and non-empty strings
Truthy(v) == v.t = "object" \/ (v.t = "string" /\ v.s # <<>>)

\* `${x}` in a template literal
ToStr(v) == IF v.t = "undefined" THEN <<"undefined">> ELSE v.s

\* `welcome_${userId}`
WelcomeKey(userId) == <<"welcome_">> \o ToStr(userId)

\* `referral_${referrerId}_${newUser.id}`
ReferralKey(referrerId, newUser) ==
    <<"referral_">> \o ToStr(referrerId) \o <<"_">> \o newUser.s

----------------------------------------------------------------------------
(* The Map sentMessages: entries <<key, timestamp>> in insertion order *)

MapHas(m, k) == \E i \in 1..Len(m) : m[i][1] = k

\* Map.get: <<>> stands for undefined, <<v>> for the value v
MapGet(m, k) ==
    IF MapHas(m, k)
    THEN <<m[CHOOSE i \in 1..Len(m) : m[i][1] = k][2]>>
    ELSE <<>>

\* Map.set: an existing key keeps its place, a new key goes last
MapSet(m, k, v) ==
    IF MapHas(m, k)
    THEN [i \in 1..Len(m) |-> IF m[i][1] = k THEN <<k, v>> ELSE m[i]]
    ELSE Append(m, <<k, v>>)

MapDelete(m, k) == SelectSeq(m, LAMBDA e : e[1] # k)

\* Mutant: a clear that leaves the oldest entry behind
MapClearButFirst(m) == IF m = <<>> THEN <<>> ELSE <<Head(m)>>

MapClear(m) == <<>>

MapSize(m) == Len(m)

----------------------------------------------------------------------------
(* Outcomes of `await axios.post(`${TELEGRAM_API}/sendMessage`, ...)`: it   *)
(* resolves, or it rejects with an error whose response may carry the      *)
(* platform's description.                                                 *)

SendOk == [ok |-> TRUE, hasDescription |-> FALSE, description |-> <<>>]
ErrBlocked ==
    [ok |-> FALSE, hasDescription |-> TRUE,
     description |-> <<"Forbidden:", "bot", "was", "blocked", "by", "the", "user">>]
ErrChatNotFound ==
    [ok |-> FALSE, hasDescription |-> TRUE,
     description |-> <<"Bad", "Request:", "chat", "not", "found">>]
ErrNetwork == [ok |-> FALSE, hasDescription |-> FALSE, description |-> <<>>]

SendOutcomes == {SendOk, ErrBlocked, ErrChatNotFound, ErrNetwork}

\* String.prototype.includes, on strings given word by word
Includes(s, sub) ==
    \E i \in 0..(Len(s) - Len(sub)) : SubSeq(s, i + 1, i + Len(sub)) = sub

\* error.response?.data?.description?.includes('bot was blocked')
IsBlockedError(err) ==
    err.hasDescription /\ Includes(err.description, <<"bot", "was", "blocked">>)

----------------------------------------------------------------------------
(* Requests and responses *)

WelcomeUserIds == {Undefined, Str(<<>>), Str(<<"7">>)}

\* <<referrerId, newUser>>
ReferralBodies ==
    { <<Undefined, Obj(<<"9">>)>>,
      <<Str(<<"7">>), Undefined>>,
      <<Str(<<"7">>), Obj(<<"8", "_", "9">>)>>,
      <<Str(<<"7", "_", "8">>), Obj(<<"9">>)>> }

\* <<telegramId, message>>
BotBodies ==
    { <<Undefined, Str(<<"hi">>)>>,
      <<Str(<<"7">>), Undefined>>,
      <<Str(<<"7">>), Str(<<"hi">>)>> }

\* A handler suspended at its await: its endpoint and its cache key (for
\* sendBotMessage, the chat it sends to).
Suspended(ep, key) == [ep |-> ep, key |-> key]
CanSuspend == BagCardinality(pending) < MaxInFlight
Suspend(h) == pending' = pending (+) SetToBag({h})
Resume(h) == pending' = pending (-) SetToBag({h})
InFlight == BagToSet(pending)

\* A response: res.status(status).json({...}).  status 0: the handler's promise
\* rejected and the handler sent no response.
Resp(ep, status, success, alreadySent, botBlocked, hasError, count, entries) ==
    [ep |-> ep, status |-> status, success |-> success, alreadySent |-> alreadySent,
     botBlocked |-> botBlocked, hasError |-> hasError, count |-> count,
     entries |-> entries]
Answer(ep, status, success) == Resp(ep, status, success, FALSE, FALSE, FALSE, 0, <<>>)
NoResp == Answer("none", 0, FALSE)

\* What becomes of a request whose async handler throws: Express 4 leaves the
\* rejected promise unhandled and the request unanswered (status 0); Express 5
\* passes it on to the default error handler, which answers 500.
ThrownStatuses == {0, 500}

----------------------------------------------------------------------------
(* POST /api/sendWelcomeMessage *)

\* Mutant: the window test written with <= instead of <
WelcomeSentRecentlyInclusive(m, key, t) ==
    LET lastSent == MapGet(m, key)
    IN  lastSent # <<>> /\ lastSent[1] # 0 /\ (t - lastSent[1]) <= WELCOME_WINDOW

\* lastSent && (Date.now() - lastSent) < 24 * 60 * 60 * 1000
WelcomeSentRecently(m, key, t) ==
    LET lastSent == MapGet(m, key)
    IN  lastSent # <<>> /\ lastSent[1] # 0 /\ (t - lastSent[1]) < WELCOME_WINDOW

\* sentMessages.set(key, Date.now())
MarkSent(key) ==
    /\ sentMessages' = MapSet(sentMessages, key, now)
    /\ sinceClear' = FALSE

\* if (!userId)
WelcomeInvalid(userId) == ~Truthy(userId)

\* The handler up to its await
SendWelcomeMessage(userId) ==
    /\ IF WelcomeInvalid(userId)
       THEN /\ lastOut' = Answer("welcome", 400, FALSE)
            /\ UNCHANGED pending
       ELSE IF WelcomeSentRecently(sentMessages, WelcomeKey(userId), now)
       THEN /\ lastOut' = Resp("welcome", 200, TRUE, TRUE, FALSE, FALSE, 0, <<>>)
            /\ UNCHANGED pending
       ELSE /\ CanSuspend
            /\ Suspend(Suspended("welcome", WelcomeKey(userId)))
            /\ UNCHANGED lastOut
    /\ UNCHANGED <<now, ticks, sentMessages, welcomedAt, sinceClear, regVars, hooks>>

\* The handler from its await on
WelcomeSendDone(h, outcome) ==
    /\ h \in InFlight
    /\ h.ep = "welcome"
    /\ Resume(h)
    /\ IF outcome.ok
       THEN /\ MarkSent(h.key)
            /\ welcomedAt' = MapSet(welcomedAt, h.key, now)
            /\ lastOut' = Answer("welcome", 200, TRUE)
       ELSE /\ lastOut' = IF IsBlockedError(outcome)
                           THEN Resp("welcome", 200, TRUE, FALSE, TRUE, FALSE, 0, <<>>)
                           ELSE Resp("welcome", 200, TRUE, FALSE, FALSE, TRUE, 0, <<>>)
            /\ UNCHANGED <<sentMessages, welcomedAt, sinceClear>>
    /\ UNCHANGED <<now, ticks, regVars, hooks>>

----------------------------------------------------------------------------
(* POST /api/sendReferralNotification *)

\* Mutant: the two tests joined with && instead of ||
ReferralInvalidBoth(referrerId, newUser) == ~Truthy(referrerId) /\ ~Truthy(newUser)

\* if (!referrerId || !newUser)
ReferralInvalid(referrerId, newUser) == ~Truthy(referrerId) \/ ~Truthy(newUser)

\* Mutant: the referral check given the welcome check's 24-hour window
ReferralSentWithinDay(m, key) == WelcomeSentRecently(m, key, now)

\* if (sentMessages.has(notificationKey))
ReferralAlreadySent(m, key) == MapHas(m, key)

SendReferralNotification(referrerId, newUser) ==
    /\ IF ReferralInvalid(referrerId, newUser)
       THEN /\ lastOut' = Answer("referral", 400, FALSE)
            /\ UNCHANGED pending
       ELSE IF ReferralAlreadySent(sentMessages, ReferralKey(referrerId, newUser))
       THEN /\ lastOut' = Resp("referral", 200, TRUE, TRUE, FALSE, FALSE, 0, <<>>)
            /\ UNCHANGED pending
       ELSE /\ CanSuspend
            /\ Suspend(Suspended("referral", ReferralKey(referrerId, newUser)))
            /\ UNCHANGED lastOut
    /\ UNCHANGED <<now, ticks, sentMessages, welcomedAt, sinceClear, regVars, hooks>>

\* The catch block's blocked branch starts with console.log(`Referrer ${referrerId}
\* ...`), and referrerId is a const of the try block: the catch block throws a
\* ReferenceError before it answers.
ReferralBlockedStatuses == ThrownStatuses

\* Mutant: the record written whether or not the send succeeded
ReferralSendDoneMarksAlways(h, outcome) ==
    /\ h \in InFlight
    /\ h.ep = "referral"
    /\ Resume(h)
    /\ MarkSent(h.key)
    /\ UNCHANGED welcomedAt
    /\ IF outcome.ok
       THEN lastOut' = Answer("referral", 200, TRUE)
       ELSE IF IsBlockedError(outcome)
       THEN \E st \in ReferralBlockedStatuses : lastOut' = Answer("referral", st, FALSE)
       ELSE lastOut' = Resp("referral", 200, TRUE, FALSE, FALSE, TRUE, 0, <<>>)
    /\ UNCHANGED <<now, ticks, regVars, hooks>>

ReferralSendDone(h, outcome) ==
    /\ h \in InFlight
    /\ h.ep = "referral"
    /\ Resume(h)
    /\ IF outcome.ok
       THEN /\ MarkSent(h.key)
            /\ UNCHANGED welcomedAt
            /\ lastOut' = Answer("referral", 200, TRUE)
       ELSE /\ IF IsBlockedError(outcome)
               THEN \E st \in ReferralBlockedStatuses : lastOut' = Answer("referral", st, FALSE)
               ELSE lastOut' = Resp("referral", 200, TRUE, FALSE, FALSE, TRUE, 0, <<>>)
            /\ UNCHANGED <<sentMessages, welcomedAt, sinceClear>>
    /\ UNCHANGED <<now, ticks, regVars, hooks>>

----------------------------------------------------------------------------
(* POST /api/sendBotMessage *)

\* if (!telegramId || !message)
BotInvalid(telegramId, message) == ~Truthy(telegramId) \/ ~Truthy(message)

SendBotMessage(telegramId, message) ==
    /\ IF BotInvalid(telegramId, message)
       THEN /\ lastOut' = Answer("bot", 400, FALSE)
            /\ UNCHANGED pending
       ELSE /\ CanSuspend
            /\ Suspend(Suspended("bot", ToStr(telegramId)))
            /\ UNCHANGED lastOut
    /\ UNCHANGED <<now, ticks, sentMessages, welcomedAt, sinceClear, regVars, hooks>>

\* As in the referral handler: console.log(`User ${telegramId} ...`) in the catch
\* block reads a const of the try block.
BotBlockedStatuses == ThrownStatuses

\* Mutant: the failure masked as in the two notification handlers
BotFailureMasked == Resp("bot", 200, TRUE, FALSE, FALSE, TRUE, 0, <<>>)

\* res.status(500).json({ error: 'Failed to send message', details: ... })
BotFailure == Resp("bot", 500, FALSE, FALSE, FALSE, TRUE, 0, <<>>)

BotSendDone(h, outcome) ==
    /\ h \in InFlight
    /\ h.ep = "bot"
    /\ Resume(h)
    /\ IF outcome.ok
       THEN lastOut' = Answer("bot", 200, TRUE)
       ELSE IF IsBlockedError(outcome)
       THEN \E st \in BotBlockedStatuses : lastOut' = Answer("bot", st, FALSE)
       ELSE lastOut' = BotFailure
    /\ UNCHANGED <<now, ticks, sentMessages, welcomedAt, sinceClear, regVars, hooks>>

----------------------------------------------------------------------------
(* DELETE /api/clearMessageCache and GET /api/messageCacheStats *)

ClearMessageCache ==
    /\ lastOut' = Resp("clear", 200, TRUE, FALSE, FALSE, FALSE, MapSize(sentMessages), <<>>)
    /\ sentMessages' = MapClear(sentMessages)
    /\ sinceClear' = TRUE
    /\ UNCHANGED <<now, ticks, pending, welcomedAt, regVars, hooks>>

\* Array.from(sentMessages.entries()).slice(0, 10)
StatsEntries(m) == SubSeq(m, 1, IF Len(m) < STATS_SAMPLE THEN Len(m) ELSE STATS_SAMPLE)

MessageCacheStats ==
    /\ lastOut' = Resp("stats", 200, TRUE, FALSE, FALSE, FALSE,
                        MapSize(sentMessages), StatsEntries(sentMessages))
    /\ UNCHANGED <<now, ticks, sentMessages, pending, welcomedAt, sinceClear,
                   regVars, hooks>>

----------------------------------------------------------------------------
(* The hourly sweep *)

\* Mutant: the age test written with <= instead of <
RECURSIVE SweepFromInclusive(_, _, _, _)
SweepFromInclusive(m, i, count, sevenDaysAgo) ==
    IF i > Len(m) THEN [map |-> m, clearedCount |-> count]
    ELSE IF m[i][2] <= sevenDaysAgo
         THEN SweepFromInclusive(MapDelete(m, m[i][1]), i, count + 1, sevenDaysAgo)
         ELSE SweepFromInclusive(m, i + 1, count, sevenDaysAgo)

\* for (const [key, timestamp] of sentMessages.entries()) over the live Map: i is
\* the entry the iterator stands at; after a delete the next entry sits at i.
RECURSIVE SweepFrom(_, _, _, _)
SweepFrom(m, i, count, sevenDaysAgo) ==
    IF i > Len(m) THEN [map |-> m, clearedCount |-> count]
    ELSE IF m[i][2] < sevenDaysAgo
         THEN SweepFrom(MapDelete(m, m[i][1]), i, count + 1, sevenDaysAgo)
         ELSE SweepFrom(m, i + 1, count, sevenDaysAgo)

\* console.log(`Cleared ${clearedCount} old cache entries`)
SweepLog(n) == Resp("sweep", 0, FALSE, FALSE, FALSE, FALSE, n, <<>>)

CacheSweep ==
    /\ now >= BootTime + SWEEP_INTERVAL
    /\ LET swept == SweepFrom(sentMessages, 1, 0, now - SEVEN_DAYS)
       IN  /\ sentMessages' = swept.map
           /\ lastOut' = IF swept.clearedCount > 0
                         THEN SweepLog(swept.clearedCount)
                         ELSE lastOut
    /\ UNCHANGED <<now, ticks, pending, welcomedAt, sinceClear, regVars, hooks>>

----------------------------------------------------------------------------
(* Time *)

Tick ==
    /\ ticks < MaxTicks
    /\ \E d \in TickSteps : d <= ClockSpan - (now - BootTime) /\ now' = now + d
    /\ ticks' = ticks + 1
    /\ UNCHANGED <<cacheVars, regVars, hooks>>

----------------------------------------------------------------------------
(* The notification cache and its handlers *)

InitReg ==
    /\ isHealthy = TRUE
    /\ regPc = "start"
    /\ retries = 0
    /\ attempts = 0
    /\ failures = 0
    /\ retryTimer = <<>>
    /\ probe = "none"
    /\ probeIn = PROBE_INTERVAL
    /\ hits = 0
    /\ windowIn = WINDOW_MS
    /\ healthResp = 0

Init ==
    /\ now = BootTime
    /\ ticks = 0
    /\ sentMessages = <<>>
    /\ pending = EmptyBag
    /\ lastOut = NoResp
    /\ welcomedAt = <<>>
    /\ sinceClear = FALSE
    /\ InitReg
    /\ hooks = <<>>

Next ==
    \/ \E userId \in WelcomeUserIds : SendWelcomeMessage(userId)
    \/ \E h \in InFlight, o \in SendOutcomes : WelcomeSendDone(h, o)
    \/ \E b \in ReferralBodies : SendReferralNotification(b[1], b[2])
    \/ \E h \in InFlight, o \in SendOutcomes : ReferralSendDone(h, o)
    \/ \E b \in BotBodies : SendBotMessage(b[1], b[2])
    \/ \E h \in InFlight, o \in SendOutcomes : BotSendDone(h, o)
    \/ ClearMessageCache
    \/ MessageCacheStats
    \/ CacheSweep
    \/ Tick

Spec == Init /\ [][Next]_vars

----------------------------------------------------------------------------
(* Webhook registration, the health flag and what writes it (src/index.js; *)
(* src/unnamed/part_000 has the same code with max: 100)                   *)

\* Mutant: the bound test written with <= instead of <
CanRetryInclusive(n) == n <= MAX_RETRIES

\* if (retries < MAX_RETRIES)
CanRetry(n) == n < MAX_RETRIES

\* Mutant: the retry scheduled without its delay
RetryTimerAtOnce(n) == <<0, n + 1>>

\* setTimeout(() => initWebhook(retries + 1), RETRY_TIMEOUT)
RetryTimer(n) == <<RETRY_TIMEOUT, n + 1>>

\* Mutant: the retry called with the same attempt index
NextAttemptSame(timer) == timer[2] - 1

\* The argument the timer's callback passes to initWebhook
NextAttempt(timer) == timer[2]

\* server.listen's callback: await initWebhook(), up to the await of setWebhook
Listen ==
    /\ regPc = "start"
    /\ regPc' = "calling"
    /\ retries' = 0
    /\ attempts' = attempts + 1
    /\ UNCHANGED <<now, ticks, cacheVars, hooks, isHealthy, failures, retryTimer, probe, probeIn,
                   hits, windowIn, healthResp>>

\* axios.get(.../setWebhook) resolves
SetWebhookOk ==
    /\ regPc = "calling"
    /\ isHealthy' = TRUE
    /\ regPc' = "registered"
    /\ UNCHANGED <<now, ticks, cacheVars, hooks, retries, attempts, failures, retryTimer, probe,
                   probeIn, hits, windowIn, healthResp>>

\* axios.get(.../setWebhook) rejects
SetWebhookFails ==
    /\ regPc = "calling"
    /\ isHealthy' = FALSE
    /\ failures' = failures + 1
    /\ IF CanRetry(retries)
       THEN /\ retryTimer' = RetryTimer(retries)
            /\ regPc' = "waiting"
       ELSE /\ retryTimer' = <<>>
            /\ regPc' = "exhausted"
    /\ UNCHANGED <<now, ticks, cacheVars, hooks, retries, attempts, probe, probeIn, hits,
                   windowIn, healthResp>>

\* The timer fires: initWebhook(retries + 1), up to the await of setWebhook
RetryFires ==
    /\ regPc = "waiting"
    /\ retryTimer[1] = 0
    /\ retries' = NextAttempt(retryTimer)
    /\ attempts' = attempts + 1
    /\ retryTimer' = <<>>
    /\ regPc' = "calling"
    /\ UNCHANGED <<now, ticks, cacheVars, hooks, isHealthy, failures, probe, probeIn, hits,
                   windowIn, healthResp>>

\* The rate limiter counts an arriving request
Arrive == [total |-> hits + 1]

\* The limiter's store starts a new window every windowMs: all counts go back to 0
WindowResets ==
    /\ windowIn = 0
    /\ hits' = 0
    /\ windowIn' = WINDOW_MS
    /\ UNCHANGED <<now, ticks, cacheVars, hooks, isHealthy, regPc, retries, attempts, failures,
                   retryTimer, probe, probeIn, healthResp>>

\* skipFailedRequests: a request answered with status >= 400 is taken off the count
Counted(total, status) == IF status >= 400 THEN total - 1 ELSE total

\* res.status(isHealthy ? 200 : 503)
HealthStatus == IF isHealthy THEN 200 ELSE 503

\* Mutant: a limiter handler that answers 429 and leaves the health flag alone
ServeHealthKeepsFlag ==
    IF Arrive.total > RATE_MAX THEN <<429, isHealthy>> ELSE <<HealthStatus, isHealthy>>

\* A GET /health request passes the limiter and reaches the handler, or the limiter's
\* handler rejects it: <<status, isHealthy afterwards>>
ServeHealth ==
    IF Arrive.total > RATE_MAX THEN <<429, FALSE>> ELSE <<HealthStatus, isHealthy>>

\* GET /health from outside
HealthRequest ==
    /\ healthResp' = ServeHealth[1]
    /\ isHealthy' = ServeHealth[2]
    /\ hits' = Counted(Arrive.total, ServeHealth[1])
    /\ UNCHANGED <<now, ticks, cacheVars, hooks, regPc, retries, attempts, failures, retryTimer,
                   probe, probeIn, windowIn>>

\* The keep-alive interval fires: axios.get(`${SERVER_URL}/health`) is issued
ProbeFires ==
    /\ probe = "none"
    /\ probeIn = 0
    /\ probe' = "sent"
    /\ probeIn' = PROBE_INTERVAL
    /\ UNCHANGED <<now, ticks, cacheVars, hooks, isHealthy, regPc, retries, attempts, failures,
                   retryTimer, hits, windowIn, healthResp>>

\* The keep-alive request reaches this server: its answer travels back
ProbeServed ==
    /\ probe = "sent"
    /\ probe' = IF ServeHealth[1] = 200 THEN "ok" ELSE "failed"
    /\ isHealthy' = ServeHealth[2]
    /\ hits' = Counted(Arrive.total, ServeHealth[1])
    /\ UNCHANGED <<now, ticks, cacheVars, hooks, regPc, retries, attempts, failures, retryTimer,
                   probeIn, windowIn, healthResp>>

\* The keep-alive request does not get through
ProbeLost ==
    /\ probe = "sent"
    /\ probe' = "failed"
    /\ UNCHANGED <<now, ticks, cacheVars, hooks, isHealthy, regPc, retries, attempts, failures,
                   retryTimer, probeIn, hits, windowIn, healthResp>>

\* Mutant: a keep-alive that takes any settled request as a sign of health
ProbeSettlesAlwaysHealthy ==
    /\ probe \in {"ok", "failed"}
    /\ isHealthy' = TRUE
    /\ probe' = "none"
    /\ UNCHANGED <<now, ticks, cacheVars, hooks, regPc, retries, attempts, failures,
                   retryTimer, probeIn, hits, windowIn, healthResp>>

\* .then(response => { isHealthy = response.status === 200 }) or
\* .catch(() => { isHealthy = false })
ProbeSettles ==
    /\ probe \in {"ok", "failed"}
    /\ isHealthy' = (probe = "ok")
    /\ probe' = "none"
    /\ UNCHANGED <<now, ticks, cacheVars, hooks, regPc, retries, attempts, failures, retryTimer,
                   probeIn, hits, windowIn, healthResp>>

\* Time passes, up to the instant one of the timers is due; a timer that is due
\* stays due until its callback runs.
TimeLeft == {probeIn, windowIn} \cup (IF retryTimer = <<>> THEN {} ELSE {retryTimer[1]})
After(left, d) == IF left > d THEN left - d ELSE 0

RegTick ==
    /\ ticks < MaxRegTicks
    /\ \E d \in TimeLeft :
         /\ d > 0
         /\ probeIn' = After(probeIn, d)
         /\ windowIn' = After(windowIn, d)
         /\ retryTimer' = IF retryTimer = <<>> THEN <<>>
                          ELSE <<After(retryTimer[1], d), retryTimer[2]>>
    /\ ticks' = ticks + 1
    /\ UNCHANGED <<now, cacheVars, hooks, isHealthy, regPc, retries, attempts, failures, probe,
                   hits, healthResp>>

NextReg ==
    \/ Listen
    \/ SetWebhookOk
    \/ SetWebhookFails
    \/ RetryFires
    \/ HealthRequest
    \/ WindowResets
    \/ ProbeFires
    \/ ProbeServed
    \/ ProbeLost
    \/ ProbeSettles
    \/ RegTick

SpecReg == Init /\ [][NextReg]_vars

----------------------------------------------------------------------------
(* POST /webhook/{token} in the variant with the timeout (src/index.js):   *)
(* the handler is synchronous.  It sets the 10000 ms timer, calls          *)
(* bot.handleUpdate(req.body) without awaiting the promise it returns,     *)
(* answers, and clears the timer in `finally`, all in one turn of the      *)
(* event loop; the update is processed in later turns.                     *)

WEBHOOK_TIMEOUT == 10000

MaxHooks == 2
MaxHookTicks == 3

\* bot.handleUpdate(req.body) returns its promise, or throws before it returns one
DispatchOutcomes == {"dispatched", "throws"}

\* const timeout = setTimeout(() => { res.status(504).send(...) }, 10000)
SetTimeout(delay) == <<delay>>

\* clearTimeout(timeout): the callback of a cleared timer never runs
ClearTimeout(timer) == <<>>

\* try { ...; res.status(200).send(...) } catch (error) { ...; res.status(500).send(...) }
HookStatus(o) == IF o = "throws" THEN 500 ELSE 200

\* The handler, from the request's arrival to the end of its finally block.
\* age: time since the request arrived; doneAt: the age at which the processing
\* of the update ended (-1: not yet).
WebhookUpdate(o) ==
    /\ Len(hooks) < MaxHooks
    /\ hooks' = Append(hooks,
                       [status |-> HookStatus(o),
                        responses |-> 1,
                        timer |-> ClearTimeout(SetTimeout(WEBHOOK_TIMEOUT)),
                        work |-> IF o = "throws" THEN "threw" ELSE "running",
                        age |-> 0,
                        doneAt |-> -1])
    /\ UNCHANGED <<now, ticks, cacheVars, regVars>>

\* The promise of bot.handleUpdate settles: the update has been processed, or its
\* processing failed (a rejection nothing handles)
HookWorkEnds(i, ok) ==
    /\ hooks[i].work = "running"
    /\ hooks' = [hooks EXCEPT ![i].work = IF ok THEN "done" ELSE "failed",
                              ![i].doneAt = hooks[i].age]
    /\ UNCHANGED <<now, ticks, cacheVars, regVars>>

\* Time passes: half the timeout, or the whole of it
HookTickSteps == {WEBHOOK_TIMEOUT \div 2, WEBHOOK_TIMEOUT}

HookTick ==
    /\ ticks < MaxHookTicks
    /\ \E d \in HookTickSteps :
         hooks' = [i \in 1..Len(hooks) |-> [hooks[i] EXCEPT !.age = @ + d]]
    /\ ticks' = ticks + 1
    /\ UNCHANGED <<now, cacheVars, regVars>>

NextHook ==
    \/ \E o \in DispatchOutcomes : WebhookUpdate(o)
    \/ \E i \in 1..Len(hooks), ok \in BOOLEAN : HookWorkEnds(i, ok)
    \/ HookTick

SpecHook == Init /\ [][NextHook]_vars

----------------------------------------------------------------------------
(* Properties of the notification cache and its handlers *)

\* What the properties say of a request body and of an outcome, in their own terms
Missing(v) == v.t = "undefined"
Present(v) == ~Missing(v) /\ v.s # <<>>
OtherFailures == {ErrChatNotFound, ErrNetwork}
Records(m) == {m[i] : i \in 1..Len(m)}
RecordOf(m, k) == {e \in Records(m) : e[1] = k}
AlreadySent(ep) == Resp(ep, 200, TRUE, TRUE, FALSE, FALSE, 0, <<>>)
SendsFor(ep, k) == pending' = pending (+) SetToBag({[ep |-> ep, key |-> k]})
WelcomeOf(userId) == <<"welcome_">> \o userId.s

\* C1 as the claim states it: after a welcome send for U recorded t, a later
\* sendWelcomeMessage request for U handled in [t, t+24h) answers 200 with
\* alreadySent: true and sends nothing, and one handled at or after t+24h sends.
C1_SuppressedAfterAnySend ==
    [][\A u \in WelcomeUserIds :
         (Present(u) /\ SendWelcomeMessage(u))
         => \A e \in RecordOf(welcomedAt, WelcomeOf(u)) :
              IF now - e[2] < 24 * HOUR_MS
              THEN lastOut' = AlreadySent("welcome") /\ pending' = pending
              ELSE SendsFor("welcome", WelcomeOf(u))]_vars

\* C1, amended: as long as the record welcome_U with timestamp t is in the cache, a
\* sendWelcomeMessage request for U handled in [t, t+24h) answers 200 with
\* alreadySent: true and sends nothing, and one handled at or after t+24h sends;
\* a send that succeeds sets the record's timestamp to the time of the send; and a
\* record younger than 24h leaves the cache only by clearMessageCache.
C1_SuppressedWhileRecorded ==
    [][/\ \A u \in WelcomeUserIds :
            (Present(u) /\ SendWelcomeMessage(u))
            => \A e \in RecordOf(sentMessages, WelcomeOf(u)) :
                 IF now - e[2] < 24 * HOUR_MS
                 THEN lastOut' = AlreadySent("welcome") /\ pending' = pending
                 ELSE SendsFor("welcome", WelcomeOf(u))
       /\ \A h \in InFlight :
            WelcomeSendDone(h, SendOk)
            => /\ RecordOf(sentMessages', h.key) = {<<h.key, now>>}
               /\ lastOut' = Resp("welcome", 200, TRUE, FALSE, FALSE, FALSE, 0, <<>>)
       /\ \A e \in RecordOf(sentMessages, <<"welcome_", "7">>) :
            (now' - e[2] < 24 * HOUR_MS /\ RecordOf(sentMessages', e[1]) = {})
            => ClearMessageCache]_vars

\* C1 witness: a request suppressed 23 hours after the send, with the record in
\* place.  The referral record of this instant shows that the request was handled
\* now: the referral send that wrote it was answered before the request was.
C1_Witness ==
    /\ lastOut = AlreadySent("welcome")
    /\ \E e \in RecordOf(sentMessages, <<"welcome_", "7">>) : now - e[2] = 23 * HOUR_MS
    /\ \E r \in Records(sentMessages) : r[1] # <<"welcome_", "7">> /\ r[2] = now

\* C2 as the claim states it: no two requests for the same key have both passed the
\* cache check and both issued their send.
C2_NoDuplicateSend ==
    \A h \in InFlight : h.ep \in {"welcome", "referral"} => CopiesIn(h, pending) <= 1

\* C6: a sweep removes exactly the records with timestamp < now - 7 days, leaves the
\* others as they are and in their order, and logs the number it removed.
C6_SweepExact ==
    [][CacheSweep
       => LET old(e) == e[2] < now - 7 * 24 * HOUR_MS
              removed == {i \in 1..Len(sentMessages) : old(sentMessages[i])}
          IN  /\ sentMessages' = SelectSeq(sentMessages, LAMBDA e : ~old(e))
              /\ IF removed = {}
                 THEN lastOut' = lastOut
                 ELSE lastOut'.ep = "sweep" /\ lastOut'.count = Cardinality(removed)]_vars

\* C6 witness: a sweep has removed one record and left the other
C6_Witness ==
    /\ lastOut.ep = "sweep"
    /\ lastOut.count = 1
    /\ Len(sentMessages) = 1

\* C7: clearMessageCache answers with the number of entries the cache held and
\* leaves it empty; messageCacheStats after it, with no send recorded in between,
\* answers totalEntries 0 and no entries.
C7_ClearEmpties ==
    [][/\ ClearMessageCache
          => /\ lastOut'.ep = "clear" /\ lastOut'.status = 200
             /\ lastOut'.count = Len(sentMessages)
             /\ sentMessages' = <<>>
       /\ (MessageCacheStats /\ sinceClear)
          => /\ lastOut'.ep = "stats" /\ lastOut'.status = 200
             /\ lastOut'.count = 0
             /\ lastOut'.entries = <<>>]_vars

\* C7 witness: stats answered after a clear that found a record (no time has
\* passed, so no sweep has run)
C7_Witness ==
    /\ lastOut.ep = "stats"
    /\ sinceClear
    /\ welcomedAt # <<>>
    /\ ticks = 0

\* C8: a request with a required field missing is answered 400, starts no send and
\* leaves the cache as it is.
C8_ValidationNoEffect ==
    [][LET Rejected(ep) ==
               /\ lastOut' = Resp(ep, 400, FALSE, FALSE, FALSE, FALSE, 0, <<>>)
               /\ pending' = pending
               /\ sentMessages' = sentMessages
       IN  /\ \A u \in WelcomeUserIds :
                (Missing(u) /\ SendWelcomeMessage(u)) => Rejected("welcome")
           /\ \A b \in ReferralBodies :
                ((Missing(b[1]) \/ Missing(b[2])) /\ SendReferralNotification(b[1], b[2]))
                => Rejected("referral")
           /\ \A b \in BotBodies :
                ((Missing(b[1]) \/ Missing(b[2])) /\ SendBotMessage(b[1], b[2]))
                => Rejected("bot")]_vars

\* C8 witness: a referral request without referrerId was rejected while the cache
\* held a record and a send was in flight
C8_Witness ==
    /\ lastOut = Resp("referral", 400, FALSE, FALSE, FALSE, FALSE, 0, <<>>)
    /\ sentMessages # <<>>
    /\ InFlight # {}

\* C9 as the claim states it: a send that fails with 'bot was blocked' is answered
\* 200 with success: true and botBlocked: true by each of the three handlers.
C9_BlockedAnswered200 ==
    [][\A h \in InFlight :
         (\/ WelcomeSendDone(h, ErrBlocked)
          \/ ReferralSendDone(h, ErrBlocked)
          \/ BotSendDone(h, ErrBlocked))
         => lastOut'.status = 200 /\ lastOut'.success /\ lastOut'.botBlocked]_vars

\* C10: a send that fails otherwise is answered 200 with success: true by
\* sendWelcomeMessage and sendReferralNotification, and 500 by sendBotMessage.
C10_OtherFailures ==
    [][\A h \in InFlight : \A o \in OtherFailures :
         /\ (WelcomeSendDone(h, o) \/ ReferralSendDone(h, o))
            => lastOut'.ep = h.ep /\ lastOut'.status = 200 /\ lastOut'.success
         /\ BotSendDone(h, o)
            => lastOut'.ep = "bot" /\ lastOut'.status = 500 /\ ~lastOut'.success]_vars

\* C10 witness: sendBotMessage has answered 500 with the error
C10_Witness ==
    /\ lastOut.ep = "bot"
    /\ lastOut.status = 500
    /\ lastOut.hasError

\* The keys of the two valid requests of the model, and the failing outcomes
Failures == SendOutcomes \ {SendOk}
DedupEndpoints == {"welcome", "referral"}
KeyOf(ep) == IF ep = "welcome" THEN <<"welcome_", "7">>
             ELSE <<"referral_", "7", "_", "8", "_", "9">>

\* The latest output is the answer to a request of endpoint ep whose send failed
\* (a handler that throws in its catch block answers nothing, or 500)
FailedSendAnswered(ep) ==
    /\ lastOut.ep = ep
    /\ lastOut.status # 400
    /\ (lastOut.botBlocked \/ lastOut.hasError \/ ~lastOut.success)

\* A request of endpoint ep with every field present is handled
ValidRequest(ep) ==
    IF ep = "welcome"
    THEN \E u \in WelcomeUserIds : Present(u) /\ SendWelcomeMessage(u)
    ELSE \E b \in ReferralBodies :
           Present(b[1]) /\ Present(b[2]) /\ SendReferralNotification(b[1], b[2])

\* A record enters the cache, or gets its timestamp, only by the step in which a
\* send for its key completes successfully, with the time of that step
RecordsOnlyBySuccess ==
    \A e \in Records(sentMessages') \ Records(sentMessages) :
        \E h \in InFlight :
            /\ h.ep \in DedupEndpoints
            /\ e = <<h.key, now>>
            /\ (WelcomeSendDone(h, SendOk) \/ ReferralSendDone(h, SendOk))

\* A send that fails leaves the cache as it is
FailureLeavesCache ==
    \A h \in InFlight : \A o \in Failures :
        (WelcomeSendDone(h, o) \/ ReferralSendDone(h, o)) => sentMessages' = sentMessages

Suppressing(ep) ==
    \E e \in RecordOf(sentMessages, KeyOf(ep)) :
        ep = "welcome" => now - e[2] < 24 * HOUR_MS

ReferralOf(b) == <<"referral_">> \o b[1].s \o <<"_">> \o b[2].s

\* C14: a successful referral send for the pair (R, N) records referral_R_N; while
\* that record is in the cache a request for the pair is answered 200 with
\* alreadySent: true and sends nothing, whatever its age, and a request sends
\* only when the cache holds no such record; the record leaves the cache only by
\* clearMessageCache or by a sweep that finds it older than 7 days.
C14_ReferralDedup ==
    [][/\ \A h \in InFlight :
            ReferralSendDone(h, SendOk)
            => /\ RecordOf(sentMessages', h.key) = {<<h.key, now>>}
               /\ lastOut' = Resp("referral", 200, TRUE, FALSE, FALSE, FALSE, 0, <<>>)
       /\ \A b \in ReferralBodies :
            (Present(b[1]) /\ Present(b[2]) /\ SendReferralNotification(b[1], b[2]))
            => IF RecordOf(sentMessages, ReferralOf(b)) # {}
               THEN lastOut' = AlreadySent("referral") /\ pending' = pending
               ELSE SendsFor("referral", ReferralOf(b))
       /\ \A b \in ReferralBodies : \A e \in RecordOf(sentMessages, ReferralOf(b)) :
            RecordOf(sentMessages', e[1]) = {}
            => \/ ClearMessageCache
               \/ CacheSweep /\ e[2] < now - 7 * 24 * HOUR_MS]_vars

\* C14 witness: a referral request suppressed by a record that is 7 days old (the
\* sweep keeps a record of exactly that age).  The welcome record of this instant
\* shows that the request was handled now: the welcome send that wrote it was
\* answered before the referral request was.
C14_Witness ==
    /\ lastOut = AlreadySent("referral")
    /\ \E e \in RecordOf(sentMessages, KeyOf("referral")) : now - e[2] = 7 * 24 * HOUR_MS
    /\ \E w \in RecordOf(sentMessages, KeyOf("welcome")) : w[2] = now

----------------------------------------------------------------------------
(* Properties of the webhook registration loop *)

Ended == {"registered", "exhausted"}

\* C3: initWebhook calls setWebhook at most MAX_RETRIES+1 times; a failed attempt
\* with index < MAX_RETRIES sets one timer of RETRY_TIMEOUT for the attempt
\* index+1, a failed attempt with index >= MAX_RETRIES and a successful attempt
\* set none; when every attempt fails the loop ends after exactly MAX_RETRIES+1
\* attempts, with the health flag false.
C3_BoundedRegistration ==
    [][/\ attempts' <= MAX_RETRIES + 1
       /\ (regPc = "calling" /\ failures' = failures + 1)
          => IF retries < MAX_RETRIES
             THEN regPc' = "waiting" /\ retryTimer' = <<RETRY_TIMEOUT, retries + 1>>
             ELSE /\ regPc' = "exhausted" /\ retryTimer' = <<>>
                  /\ attempts' = MAX_RETRIES + 1 /\ failures' = MAX_RETRIES + 1
                  /\ ~isHealthy'
       /\ (regPc = "calling" /\ regPc' = "registered") => retryTimer' = <<>>
       /\ attempts' # attempts
          => /\ attempts' = attempts + 1
             /\ \/ regPc = "start" /\ retries' = 0
                \/ regPc = "waiting" /\ retryTimer[1] = 0 /\ retries' = retries + 1
       /\ regPc \in Ended => regPc' = regPc /\ attempts' = attempts]_vars

\* C3 witness: every attempt failed
C3_Witness ==
    /\ regPc = "exhausted"
    /\ attempts = MAX_RETRIES + 1
    /\ failures = MAX_RETRIES + 1
    /\ ~isHealthy

\* C4: when setWebhook first succeeds on the attempt with index K, after K failed
\* attempts, K+1 attempts have been made, no further one follows, and the health
\* flag is true when the loop ends.
C4_SuccessOnAttemptK ==
    [][/\ (regPc = "calling" /\ regPc' = "registered")
          => /\ retries = failures /\ retries <= MAX_RETRIES
             /\ attempts' = failures + 1
             /\ isHealthy'
       /\ regPc = "registered"
          => regPc' = "registered" /\ attempts' = attempts /\ failures' = failures]_vars

\* C4 witness: success on the attempt with index 2
C4_Witness ==
    /\ regPc = "registered"
    /\ failures = 2
    /\ attempts = 3
    /\ isHealthy

\* C5 as the claim states it: a loop that ends after N failed calls, 1 <= N <
\* MAX_RETRIES, has made N+1 attempts and leaves the health flag false.
C5_EndsFalseAfterFailures ==
    [][(regPc = "calling" /\ regPc' \in Ended /\ failures' >= 1 /\ failures' < MAX_RETRIES)
       => attempts' = failures' + 1 /\ ~isHealthy']_vars

\* C5, amended: N < MAX_RETRIES failed calls followed by a successful one make
\* N+1 attempts; every failure leaves the health flag false and sets the retry
\* RETRY_TIMEOUT later, no retry starts before its delay is over, and the health
\* flag is true when the loop ends with the successful call.
C5_FailuresThenSuccess ==
    [][/\ (regPc = "calling" /\ failures' = failures + 1)
          => /\ ~isHealthy'
             /\ failures' <= MAX_RETRIES => retryTimer' = <<RETRY_TIMEOUT, failures'>>
       /\ (regPc = "waiting" /\ regPc' # "waiting")
          => /\ retryTimer[1] = 0
             /\ regPc' = "calling" /\ attempts' = failures + 1
       /\ (regPc = "calling" /\ regPc' \in Ended /\ failures' < MAX_RETRIES)
          => /\ regPc' = "registered"
             /\ attempts' = failures' + 1
             /\ isHealthy']_vars

\* C5 witness: MAX_RETRIES-1 failures, then success
C5_Witness ==
    /\ regPc = "registered"
    /\ failures = MAX_RETRIES - 1
    /\ attempts = MAX_RETRIES
    /\ isHealthy

----------------------------------------------------------------------------
(* Properties of the rate limiter, the health endpoint and the keep-alive *)

\* The limiter's count for the window is exceeded by the request that arrives now
Exceeded == hits >= RATE_MAX

\* C11: a request rejected because the limiter's count for the window is exceeded
\* is answered 429 and leaves the health flag false; and a GET /health handled
\* while the flag is false, itself not rate-limited, is answered 503.
C11_RejectionDegrades ==
    [][/\ (HealthRequest /\ Exceeded) => (healthResp' = 429 /\ ~isHealthy')
       /\ (ProbeServed /\ Exceeded) => (probe' = "failed" /\ ~isHealthy')
       /\ (HealthRequest /\ ~Exceeded /\ ~isHealthy)
          => (healthResp' = 503 /\ ~isHealthy')]_vars

\* C11 witness: GET /health answered 503 in the window after the one in which the
\* limiter rejected a request.  Registration has not started and the keep-alive
\* has not fired yet (one clock advance, of a whole window), so it is the
\* limiter's handler that set the flag to false.
C11_Witness ==
    /\ healthResp = 503
    /\ ~isHealthy
    /\ regPc = "start"
    /\ probe = "none" /\ probeIn = 0
    /\ ticks = 1 /\ windowIn = WINDOW_MS

\* The registration loop has ended, the health flag is false, and no keep-alive
\* answer obtained while the flag was true is in flight
StuckUnhealthy ==
    /\ regPc \in Ended
    /\ ~isHealthy
    /\ probe # "ok"

\* A keep-alive request handled while the flag is false fails and leaves the flag
\* false, also when its answer arrives; and from a state as above the flag stays
\* false
NeverRestored ==
    /\ (ProbeServed /\ ~isHealthy) => (probe' = "failed" /\ ~isHealthy')
    /\ (ProbeSettles /\ probe = "failed") => ~isHealthy'
    /\ StuckUnhealthy => StuckUnhealthy'

\* C15 as the claim states it: as above, and from such a state on every GET /health
\* is answered 503.
C15_Answers503Forever ==
    [][/\ NeverRestored
       /\ (StuckUnhealthy /\ HealthRequest) => healthResp' = 503]_vars

\* C15, amended: as above, and from such a state on every GET /health that the rate
\* limiter lets through is answered 503; one that it rejects is answered 429.
C15_NeverHealthyAgain ==
    [][/\ NeverRestored
       /\ (StuckUnhealthy /\ HealthRequest)
          => healthResp' = IF Exceeded THEN 429 ELSE 503]_vars

\* C15 witness: every registration attempt has failed, the keep-alive has fired and
\* its request has settled with the flag false, and /health has answered 503
C15_Witness ==
    /\ regPc = "exhausted"
    /\ ~isHealthy
    /\ probe = "none" /\ probeIn = PROBE_INTERVAL
    /\ healthResp = 503

----------------------------------------------------------------------------
(* Properties of the webhook handler *)

\* C12 as the claim states it: of a webhook request that arrived 10000 ms ago or
\* earlier, one whose update had not been processed by then was answered 504, one
\* answered 200 had its update processed within the 10000 ms, and each got exactly
\* one response.
C12_TimeoutAnswered504 ==
    \A i \in 1..Len(hooks) :
        LET h == hooks[i]
            inTime == h.doneAt >= 0 /\ h.doneAt <= 10000
        IN  h.age >= 10000
            => /\ h.responses = 1
               /\ (h.work # "threw" /\ ~inTime) => h.status = 504
               /\ h.status = 200 => inTime

====
